---- MODULE Spec2Model ----
(***************************************************************************)
(* Model of the event confirmation pipeline:                               *)
(*   webhooks/event_processor.py  EventProcessor (queue, consumer loop,    *)
(*                                retry wrapper, trade store, dead-letter  *)
(*                                store, replay)                           *)
(*   webhooks/receiver.py         WebhookReceiver.handle_webhook           *)
(*                                                                         *)
(* Scheduling: one cooperative asyncio loop.  An action is the code that   *)
(* runs between two suspension points of a coroutine.                      *)
(* Storage: the JSON documents are modelled by their decoded contents;     *)
(* reads and writes succeed.  Wall-clock fields (created_at, timestamp of  *)
(* a dead-letter entry, received_at) are not modelled; confirmed_at and    *)
(* completed_at are modelled by their presence.                            *)
(***************************************************************************)
EXTENDS Integers, Sequences, FiniteSets, Bags, TLC

\* ------------------------------------------------------------------ bounds
MaxEvents == 2          \* events handed to enqueue_event by producers
MaxReplays == 1         \* calls of retry_dlq_event that find their entry
MaxCount == 3           \* largest confirmation_count a monitor reports
MaxApplied == 2         \* direct calls of _process_event that succeed
MaxRequests == 3        \* webhook deliveries
MaxRpcRetries == 3      \* largest max_retries a client is built with
MaxCalls == 2           \* calls of _make_request
MaxProbes == 2          \* calls of health_check
MaxQueries == 2         \* calls of typed query methods
MaxSweeps == 1          \* calls of health_check_all
MaxTasks == 2           \* _process_event coroutines started concurrently
MaxServed == 1          \* webhook deliveries while the processor runs

\* ------------------------------------------------------- program constants
MaxAttempts == 5        \* stop_after_attempt(5)
DefaultThreshold == 3   \* confirmation_threshold: int = 3
DefaultTimeoutMs == 10000    \* timeout: float = 10.0
DefaultRpcRetries == 3       \* max_retries: int = 3
DefaultBackoffFactor == 2    \* backoff_factor: float = 2.0
HealthTimeoutMs == 2000      \* aiohttp.ClientTimeout(total=2.0)

EventIds == {"e1", "e2"}
TradeIds == {"t1", "t2"}
TxHashes == {"0xa"}
Timestamps == {"ts"}
DataValues == {"d0"}
EventTypes == {"confirmation", "final_confirmation"}
Counts == (-1)..MaxCount
Thresholds == {2, 3}
MaxRetriesArgs == {3}
Errors == {"err_a", "err_b"}

PENDING == "pending"
CONFIRMED == "confirmed"
COMPLETED == "completed"
FAILED == "failed"

NoTrade == [status |-> "absent"]
NoCall == [op |-> "none"]
NoEvent == [event_id |-> "none"]

\* dataclass Event
Event(id, tid, tx, cnt, ts, ty, d, rc) ==
    [event_id |-> id, trade_id |-> tid, tx_hash |-> tx,
     confirmation_count |-> cnt, timestamp |-> ts, event_type |-> ty,
     data |-> d, retry_count |-> rc]

\* the events a producer can hand to enqueue_event (retry_count defaults to 0)
EventInputs ==
    {Event(id, tid, tx, cnt, ts, ty, d, 0) :
        id \in EventIds, tid \in TradeIds, tx \in TxHashes, cnt \in Counts,
        ts \in Timestamps, ty \in EventTypes, d \in DataValues}

\* the events the producers of the consumer-loop specification enqueue
QueueInputs ==
    {e \in EventInputs :
        /\ e.confirmation_count = DefaultThreshold
        /\ e.event_type = "confirmation"}

Max(a, b) == IF a >= b THEN a ELSE b

VARIABLES
    confirmation_threshold, \* EventProcessor.confirmation_threshold
    max_retries,            \* EventProcessor.max_retries
    event_queue,            \* EventProcessor.event_queue (FIFO)
    enqueue_tasks,          \* enqueue_event tasks created by retry_dlq_event, not yet run
    processing,             \* EventProcessor.processing
    processed_events,       \* EventProcessor.processed_events: event_id -> Event
    trades,                 \* bot_data.json "trades": trade_id -> trade
    failed_events,          \* dead_letter_queue.json "failed_events"
    pc,                     \* position of the process_queue task
    cur,                    \* the event held by the consumer loop
    attempt,                \* tenacity attempt_number for cur
    outcome,                \* tenacity outcome of the last attempt
    replay_result,          \* return value of the latest retry_dlq_event call
    enqueued,               \* number of producer calls of enqueue_event
    replays,                \* number of retry_dlq_event calls that found their entry
    webhook_secret,         \* WebhookReceiver.webhook_secret ("" when not configured)
    stored_events,          \* webhook_events.json "events"
    processed_ids,          \* webhook_events.json "processed_ids"
    inflight,               \* requests whose handler is suspended in request.read()
    responses,              \* the responses sent so far, in order
    delivered,              \* number of requests received
    rpc_urls,               \* RPCClient.*_rpc_url by network ("" when not configured)
    timeout,                \* RPCClient.timeout, in ms
    rpc_max_retries,        \* RPCClient.max_retries
    backoff_factor,         \* RPCClient.backoff_factor
    rq_pc,                  \* position of the latest _make_request call
    rq_url,                 \* its url argument
    rq_attempt,             \* its loop variable `attempt`
    last_error,             \* its local last_error
    rq_result,              \* what it returned or raised
    rq_log,                 \* the HTTP requests it issued, with their outcomes
    sleeps,                 \* the asyncio.sleep arguments it passed, in order
    calls,                  \* number of _make_request calls
    faults,                 \* (cause, type) of the faults the calls raised
    hc_network,             \* the network the latest health_check was asked about
    hc_result,              \* what it returned or raised
    hc_log,                 \* the HTTP requests it issued, with their timeouts
    probes,                 \* number of health_check calls
    stop_requested,         \* stop() has been called
    tasks,                  \* _process_event coroutines started and not yet run
    started,                \* the events of all _process_event coroutines started
    q_method,               \* the typed query method called last
    q_shape,                \* the `result` member of the response it got
    q_result,               \* what it returned or raised
    queries,                \* number of typed query calls
    hca_exchanges,          \* what the network did with each probe of the latest health_check_all
    hca_result,             \* the map the latest health_check_all returned
    sweeps,                 \* number of health_check_all calls
    got                     \* what the latest call of a query operation of the processor returned

procVars == <<confirmation_threshold, max_retries, event_queue, enqueue_tasks,
              processing, processed_events, trades, failed_events, pc, cur,
              attempt, outcome, replay_result, enqueued, replays>>

recvVars == <<webhook_secret, stored_events, processed_ids, inflight,
              responses, delivered>>

rpcVars == <<rpc_urls, timeout, rpc_max_retries, backoff_factor, rq_pc, rq_url,
             rq_attempt, last_error, rq_result, rq_log, sleeps, calls, faults,
             hc_network, hc_result, hc_log, probes>>

extVars == <<stop_requested, tasks, started, q_method, q_shape, q_result,
             queries, hca_exchanges, hca_result, sweeps, got>>

vars == <<procVars, recvVars, rpcVars, extVars>>

\* ------------------------------------------------------ _process_event
NewTrade ==
    [status |-> PENDING, confirmations |-> 0, events |-> <<>>,
     confirmed_at |-> FALSE, completed_at |-> FALSE]

EventSummary(e) ==
    [event_id |-> e.event_id, tx_hash |-> e.tx_hash,
     confirmation_count |-> e.confirmation_count,
     timestamp |-> e.timestamp, event_type |-> e.event_type]

\* mutant: the stored count is overwritten by the event's count
UpdateConfirmations_Overwrite(old, cnt) == cnt

\* line 217
UpdateConfirmations(old, cnt) == Max(old, cnt)

\* mutant: the status is recomputed from the event alone, so an event below
\* the threshold puts the trade back to pending
UpdateStatus_Recompute(trade, e, threshold) ==
    IF e.confirmation_count >= threshold
    THEN IF e.event_type = "final_confirmation"
         THEN [trade EXCEPT !.status = COMPLETED, !.completed_at = TRUE]
         ELSE [trade EXCEPT !.status = CONFIRMED, !.confirmed_at = TRUE]
    ELSE [trade EXCEPT !.status = PENDING]

\* mutant: the threshold comparison is strict
UpdateStatus_Strict(trade, e, threshold) ==
    IF e.confirmation_count > threshold
    THEN LET t1 == IF trade.status = PENDING
                   THEN [trade EXCEPT !.status = CONFIRMED, !.confirmed_at = TRUE]
                   ELSE trade
         IN  IF e.event_type = "final_confirmation"
             THEN [t1 EXCEPT !.status = COMPLETED, !.completed_at = TRUE]
             ELSE t1
    ELSE trade

\* mutant: any event at or above the threshold completes the trade
UpdateStatus_AnyType(trade, e, threshold) ==
    IF e.confirmation_count >= threshold
    THEN [trade EXCEPT !.status = COMPLETED, !.completed_at = TRUE]
    ELSE trade

\* lines 228-247: the status part of _process_event
UpdateStatus(trade, e, threshold) ==
    IF e.confirmation_count >= threshold
    THEN LET t1 == IF trade.status = PENDING
                   THEN [trade EXCEPT !.status = CONFIRMED, !.confirmed_at = TRUE]
                   ELSE trade
         IN  IF e.event_type = "final_confirmation"
             THEN [t1 EXCEPT !.status = COMPLETED, !.completed_at = TRUE]
             ELSE t1
    ELSE trade

\* mutant: an event whose id is already in the history is not applied again
ApplyToTrade_Dedup(old, e, threshold) ==
    LET t0 == IF old = NoTrade THEN NewTrade ELSE old
        t1 == [t0 EXCEPT !.confirmations = UpdateConfirmations(@, e.confirmation_count),
                         !.events = Append(@, EventSummary(e))]
    IN  IF \E k \in 1..Len(t0.events) : t0.events[k].event_id = e.event_id
        THEN t0
        ELSE UpdateStatus(t1, e, threshold)

\* mutant: the history is kept sorted by confirmation count
ApplyToTrade_SortedByCount(old, e, threshold) ==
    LET t0 == IF old = NoTrade THEN NewTrade ELSE old
        t1 == [t0 EXCEPT !.confirmations = UpdateConfirmations(@, e.confirmation_count),
                         !.events =
                             IF /\ @ # <<>>
                                /\ Head(@).confirmation_count > e.confirmation_count
                             THEN <<EventSummary(e)>> \o @
                             ELSE Append(@, EventSummary(e))]
    IN  UpdateStatus(t1, e, threshold)

\* mutant: the record is built from a fresh one, whatever was stored
ApplyToTrade_FreshRecord(old, e, threshold) ==
    LET t1 == [NewTrade EXCEPT
                   !.confirmations = UpdateConfirmations(@, e.confirmation_count),
                   !.events = Append(@, EventSummary(e))]
    IN  UpdateStatus(t1, e, threshold)

\* lines 204-247: the trade record after one event has been applied
ApplyToTrade(old, e, threshold) ==
    LET t0 == IF old = NoTrade THEN NewTrade ELSE old
        t1 == [t0 EXCEPT !.confirmations = UpdateConfirmations(@, e.confirmation_count),
                         !.events = Append(@, EventSummary(e))]
    IN  UpdateStatus(t1, e, threshold)

\* mutant: the record is written as soon as it is updated, before the raise
StoreAfterRaise_WrittenThrough(file, e, threshold) ==
    [file EXCEPT ![e.trade_id] = ApplyToTrade(@, e, threshold)]

\* lines 200-247: bot_data.json after a _process_event(e) that raised; the
\* updates are made on the copy loaded at line 201 and the one write is the
\* last statement but one (line 251), so the file is as it was
StoreAfterRaise(file, e, threshold) == file

\* a _process_event(e) that raises
ProcessEventRaise(e) ==
    /\ trades' = StoreAfterRaise(trades, e, confirmation_threshold)
    /\ UNCHANGED processed_events

\* lines 200-254: a successful _process_event(e)
ProcessEventOk(e) ==
    /\ trades' = [trades EXCEPT ![e.trade_id] =
                     ApplyToTrade(trades[e.trade_id], e, confirmation_threshold)]
    /\ processed_events' = [processed_events EXCEPT ![e.event_id] = e]

\* ------------------------------------------------ retry wrapper, dead letters
\* mutant: the wrapper gives up one attempt early
RetryStop_Early(n) == n >= MaxAttempts - 1

\* stop=stop_after_attempt(5): no further attempt once 5 have been made
RetryStop(n) == n >= MaxAttempts

\* reraise=True: when the attempts are exhausted the wrapper raises the last
\* attempt's own exception, not a RetryError
WrapperRaises(err) == [kind |-> "Exception", text |-> err]

\* process_queue lines 322-334: the retry count handed to _handle_failed_event
FailedRetryCount(exc, maxRetries) ==
    IF exc.kind = "RetryError" THEN maxRetries ELSE 0

\* dataclass DeadLetterEvent as built by _handle_failed_event (asdict)
DeadLetterEvent(e, errText, rc) ==
    [event_id |-> e.event_id, trade_id |-> e.trade_id,
     error_message |-> errText, retry_count |-> rc, original_event |-> e]

\* mutant: an event that was replayed before is not written back
HandleFailedEvent_DropsReplayed(e, exc, rc) ==
    failed_events' = IF e.retry_count > 0
                     THEN failed_events
                     ELSE Append(failed_events, DeadLetterEvent(e, exc.text, rc))

\* _handle_failed_event: append one entry to the dead-letter store
HandleFailedEvent(e, exc, rc) ==
    failed_events' = Append(failed_events, DeadLetterEvent(e, exc.text, rc))

\* `while self.processing` ... `finally: self.processing = False`
LoopCheck(flag) == IF flag THEN "poll" ELSE "done"

\* mutant: the exhausted event's exception escapes process_queue and ends the task
AfterFailure_Escapes(flag) == "done"

\* lines 331-334: the exception is handled inside the loop, which goes on
AfterFailure(flag) == LoopCheck(flag)

\* one attempt of _process_event_with_retry on event e, the n-th, with the
\* attempt's outcome o ("ok" or the text of the exception it raises); when the
\* wrapper returns or raises, its attempt counter and the loop's `event` are dead
Attempt(e, n, o) ==
    /\ outcome' = o
    /\ IF o = "ok"
       THEN /\ ProcessEventOk(e)
            /\ pc' = LoopCheck(processing)
            /\ attempt' = 0
            /\ cur' = NoEvent
            /\ UNCHANGED failed_events
       ELSE /\ ProcessEventRaise(e)
            /\ IF RetryStop(n)
               THEN LET exc == WrapperRaises(o)
                    IN  /\ HandleFailedEvent(e, exc, FailedRetryCount(exc, max_retries))
                        /\ pc' = AfterFailure(processing)
                        /\ attempt' = 0
                        /\ cur' = NoEvent
               ELSE /\ pc' = "backoff"
                    /\ attempt' = n
                    /\ cur' = e
                    /\ UNCHANGED failed_events

Outcomes == {"ok"} \cup Errors

\* ------------------------------------------------------------ actions
\* start(): create the process_queue task
Start ==
    /\ pc = "init"
    /\ pc' = "created"
    /\ UNCHANGED <<confirmation_threshold, max_retries, event_queue, enqueue_tasks,
                   processing, processed_events, trades, failed_events, cur,
                   attempt, outcome, replay_result, enqueued, replays>>
    /\ UNCHANGED <<recvVars, rpcVars, extVars>>

\* process_queue, first run of the task: lines 305-309
ConsumerBegin ==
    /\ pc = "created"
    /\ processing' = TRUE
    /\ pc' = "poll"
    /\ UNCHANGED <<confirmation_threshold, max_retries, event_queue, enqueue_tasks,
                   processed_events, trades, failed_events, cur,
                   attempt, outcome, replay_result, enqueued, replays>>
    /\ UNCHANGED <<recvVars, rpcVars, extVars>>

\* process_queue: event_queue.get() returns and the first attempt runs
Poll ==
    /\ pc = "poll"
    /\ event_queue # <<>>
    /\ event_queue' = Tail(event_queue)
    /\ \E o \in Outcomes : Attempt(Head(event_queue), 1, o)
    /\ UNCHANGED <<confirmation_threshold, max_retries, enqueue_tasks, processing,
                   replay_result, enqueued, replays>>
    /\ UNCHANGED <<recvVars, rpcVars, extVars>>

\* process_queue: the 1 s wait_for times out on an empty queue
PollTimeout ==
    /\ pc = "poll"
    /\ event_queue = <<>>
    /\ pc' = LoopCheck(processing)
    /\ UNCHANGED <<confirmation_threshold, max_retries, event_queue, enqueue_tasks,
                   processing, processed_events, trades, failed_events, cur,
                   attempt, outcome, replay_result, enqueued, replays>>
    /\ UNCHANGED <<recvVars, rpcVars, extVars>>

\* the retry wrapper wakes from its backoff sleep and runs the next attempt
Retry ==
    /\ pc = "backoff"
    /\ \E o \in Outcomes : Attempt(cur, attempt + 1, o)
    /\ UNCHANGED <<confirmation_threshold, max_retries, event_queue, enqueue_tasks,
                   processing, replay_result, enqueued, replays>>
    /\ UNCHANGED <<recvVars, rpcVars, extVars>>

\* stop()
Stop ==
    /\ pc \in {"created", "poll", "backoff"}
    /\ processing' = FALSE
    /\ UNCHANGED <<confirmation_threshold, max_retries, event_queue, enqueue_tasks,
                   processed_events, trades, failed_events, pc, cur,
                   attempt, outcome, replay_result, enqueued, replays>>
    /\ stop_requested' = TRUE
    /\ UNCHANGED <<tasks, started, q_method, q_shape, q_result, queries,
                   hca_exchanges, hca_result, sweeps, got>>
    /\ UNCHANGED <<recvVars, rpcVars>>

\* mutant: enqueue_event opens the trade's record in the trade store
EnqueueEvent_OpensTrade(e) ==
    /\ enqueued < MaxEvents
    /\ enqueued' = enqueued + 1
    /\ event_queue' = Append(event_queue, e)
    /\ trades' = [trades EXCEPT ![e.trade_id] =
                     IF @ = NoTrade THEN NewTrade ELSE @]
    /\ UNCHANGED <<confirmation_threshold, max_retries, enqueue_tasks,
                   processing, processed_events, failed_events, pc, cur,
                   attempt, outcome, replay_result, replays>>
    /\ UNCHANGED <<recvVars, rpcVars, extVars>>

\* enqueue_event(e) awaited by a producer (the queue is unbounded: put never waits)
EnqueueEvent(e) ==
    /\ enqueued < MaxEvents
    /\ enqueued' = enqueued + 1
    /\ event_queue' = Append(event_queue, e)
    /\ UNCHANGED <<confirmation_threshold, max_retries, enqueue_tasks,
                   processing, processed_events, trades, failed_events, pc, cur,
                   attempt, outcome, replay_result, replays>>
    /\ UNCHANGED <<recvVars, rpcVars, extVars>>

\* index of the first dead-letter entry with this event_id, 0 when there is none
FindDlq(dlq, id) ==
    IF \E i \in 1..Len(dlq) : dlq[i].event_id = id
    THEN CHOOSE i \in 1..Len(dlq) :
            /\ dlq[i].event_id = id
            /\ \A j \in 1..(i - 1) : dlq[j].event_id # id
    ELSE 0

\* list.pop(i)
Pop(s, i) == [k \in 1..(Len(s) - 1) |-> IF k < i THEN s[k] ELSE s[k + 1]]

\* mutant: the replayed event keeps its retry_count
ReplayedEvent_NoIncrement(orig) ==
    Event(orig.event_id, orig.trade_id, orig.tx_hash, orig.confirmation_count,
          orig.timestamp, orig.event_type, orig.data, orig.retry_count)

\* retry_dlq_event lines 437-447: the event rebuilt from original_event
ReplayedEvent(orig) ==
    Event(orig.event_id, orig.trade_id, orig.tx_hash, orig.confirmation_count,
          orig.timestamp, orig.event_type, orig.data, orig.retry_count + 1)

\* mutant: an id that is not found replays the oldest entry instead
RetryDlqEvent_OldestInstead(id) ==
    LET i == FindDlq(failed_events, id)
        j == IF i = 0 /\ failed_events # <<>> THEN 1 ELSE i
    IN  IF j = 0
        THEN /\ replay_result' = "false"
             /\ UNCHANGED <<failed_events, enqueue_tasks, replays>>
        ELSE /\ replays < MaxReplays
             /\ replays' = replays + 1
             /\ failed_events' = Pop(failed_events, j)
             /\ enqueue_tasks' = Append(enqueue_tasks,
                                        ReplayedEvent(failed_events[j].original_event))
             /\ replay_result' = IF i = 0 THEN "false" ELSE "true"

\* retry_dlq_event(id)
RetryDlqEvent(id) ==
    LET i == FindDlq(failed_events, id)
    IN  IF i = 0
        THEN /\ replay_result' = "false"
             /\ UNCHANGED <<failed_events, enqueue_tasks, replays>>
        ELSE /\ replays < MaxReplays
             /\ replays' = replays + 1
             /\ failed_events' = Pop(failed_events, i)
             /\ enqueue_tasks' = Append(enqueue_tasks,
                                        ReplayedEvent(failed_events[i].original_event))
             /\ replay_result' = "true"

RetryDlq ==
    /\ \E id \in EventIds : RetryDlqEvent(id)
    /\ UNCHANGED <<confirmation_threshold, max_retries, event_queue,
                   processing, processed_events, trades, pc, cur,
                   attempt, outcome, enqueued>>
    /\ UNCHANGED <<recvVars, rpcVars, extVars>>

\* the task created by retry_dlq_event runs: enqueue_event(event)
RunEnqueueTask ==
    /\ enqueue_tasks # <<>>
    /\ event_queue' = Append(event_queue, Head(enqueue_tasks))
    /\ enqueue_tasks' = Tail(enqueue_tasks)
    /\ UNCHANGED <<confirmation_threshold, max_retries,
                   processing, processed_events, trades, failed_events, pc, cur,
                   attempt, outcome, replay_result, enqueued, replays>>
    /\ UNCHANGED <<recvVars, rpcVars, extVars>>

Enqueue == \E e \in QueueInputs : EnqueueEvent(e)

\* the caller of a query operation gets value back; nothing else changes
Return(op, value) ==
    /\ got' = [op |-> op, value |-> value]
    /\ UNCHANGED <<stop_requested, tasks, started, q_method, q_shape, q_result,
                   queries, hca_exchanges, hca_result, sweeps>>
    /\ UNCHANGED <<procVars, recvVars, rpcVars>>

\* get_trade_status(t): trades.get(t), NoTrade standing for None
GetTradeStatus(t) == Return("get_trade_status", trades[t])

\* get_dlq_events()
GetDlqEvents == Return("get_dlq_events", failed_events)

\* get_queue_size()
GetQueueSize == Return("get_queue_size", Len(event_queue))

\* get_processed_count()
GetProcessedCount ==
    Return("get_processed_count",
           Cardinality({id \in EventIds : processed_events[id] # NoEvent}))

Read ==
    \/ \E t \in TradeIds : GetTradeStatus(t)
    \/ GetDlqEvents
    \/ GetQueueSize
    \/ GetProcessedCount

\* number of history entries over all trades
RECURSIVE SumLen(_, _)
SumLen(f, S) ==
    IF S = {} THEN 0
    ELSE LET t == CHOOSE x \in S : TRUE
         IN  (IF f[t] = NoTrade THEN 0 ELSE Len(f[t].events)) + SumLen(f, S \ {t})

TotalApplied == SumLen(trades, TradeIds)

\* `await processor._process_event(e)` called directly (no retry wrapper):
\* the coroutine has no suspension point, so the call is one step; when it
\* raises, nothing has been written
ProcessEvent(e, o) ==
    /\ TotalApplied < MaxApplied
    /\ outcome' = o
    /\ IF o = "ok"
       THEN ProcessEventOk(e)
       ELSE ProcessEventRaise(e)
    /\ UNCHANGED <<confirmation_threshold, max_retries, event_queue, enqueue_tasks,
                   processing, failed_events, pc, cur, attempt, replay_result,
                   enqueued, replays>>
    /\ UNCHANGED <<recvVars, rpcVars, extVars>>

DirectProcess == \E e \in EventInputs, o \in Outcomes : ProcessEvent(e, o)

\* _save_bot_data: write_text either replaces the file or raises, which is
\* logged and swallowed, leaving the file as it was
SaveBotData(file, data, written) == IF written THEN data ELSE file

\* `await processor._process_event(e)` on a disk whose writes can fail:
\* lines 249-254 with the outcome of the write_text call
ProcessEventIO(e, written) ==
    /\ TotalApplied < MaxApplied
    /\ outcome' = "ok"
    /\ trades' = SaveBotData(trades,
                             [trades EXCEPT ![e.trade_id] =
                                 ApplyToTrade(@, e, confirmation_threshold)],
                             written)
    /\ processed_events' = [processed_events EXCEPT ![e.event_id] = e]
    /\ UNCHANGED <<confirmation_threshold, max_retries, event_queue, enqueue_tasks,
                   processing, failed_events, pc, cur, attempt, replay_result,
                   enqueued, replays>>
    /\ UNCHANGED <<recvVars, rpcVars, extVars>>

\* the events applied on the failing disk: one count, both event types
IoInputs == {e \in EventInputs : e.confirmation_count = DefaultThreshold}

DirectProcessIO == \E e \in IoInputs, written \in BOOLEAN : ProcessEventIO(e, written)

\* the events handed to concurrently started _process_event coroutines
ConcInputs ==
    {e \in EventInputs : e.confirmation_count \in 1..DefaultThreshold}

\* `processor._process_event(e)` is wrapped in a task (asyncio.gather,
\* create_task): nothing of its body has run yet
StartProcess(e) ==
    /\ BagCardinality(started) < MaxTasks
    /\ started' = started (+) SetToBag({e})
    /\ tasks' = tasks (+) SetToBag({e})
    /\ UNCHANGED <<stop_requested, q_method, q_shape, q_result, queries,
                   hca_exchanges, hca_result, sweeps, got>>
    /\ UNCHANGED <<procVars, recvVars, rpcVars>>

\* the event loop runs one of the started coroutines: its body has no
\* suspension point, so it runs from the load of the store to the save
RunProcess(e) ==
    /\ BagIn(e, tasks)
    /\ tasks' = tasks (-) SetToBag({e})
    /\ outcome' = "ok"
    /\ ProcessEventOk(e)
    /\ UNCHANGED <<confirmation_threshold, max_retries, event_queue, enqueue_tasks,
                   processing, failed_events, pc, cur, attempt, replay_result,
                   enqueued, replays>>
    /\ UNCHANGED <<stop_requested, started, q_method, q_shape, q_result, queries,
                   hca_exchanges, hca_result, sweeps, got>>
    /\ UNCHANGED <<recvVars, rpcVars>>

StartAny == \E e \in ConcInputs : StartProcess(e)

RunAny == \E e \in ConcInputs : RunProcess(e)

\* an external actor marks a stored trade failed in bot_data.json, the file
\* _process_event loads at its next call
MarkFailed(t) ==
    /\ trades[t] # NoTrade
    /\ trades[t].status # FAILED
    /\ trades' = [trades EXCEPT ![t].status = FAILED]
    /\ UNCHANGED <<confirmation_threshold, max_retries, event_queue, enqueue_tasks,
                   processing, processed_events, failed_events, pc, cur, attempt,
                   outcome, replay_result, enqueued, replays>>
    /\ UNCHANGED <<recvVars, rpcVars, extVars>>

MarkFailedAny == \E t \in TradeIds : MarkFailed(t)

\* ------------------------------------------------------- webhook receiver
KnownNetworks == {"ETH", "BTC", "SOL", "LTC"}
NetworkInputs == {"eth", "DOGE"}
Secrets == {"", "k1"}
SenderKeys == {"k1", "k2"}

\* str.upper() on the network names that occur
Upper(n) ==
    CASE n = "eth" -> "ETH"
      [] OTHER -> n

\* JSON objects a monitor posts; event_id "" stands for an absent or empty id
Payloads ==
    [event_id : {""} \cup EventIds, network : NetworkInputs, tx_hash : TxHashes,
     confirmations : {DefaultThreshold}, timestamp : Timestamps,
     type : {"confirmation"}]

\* raw request bodies: a JSON object, JSON that is no object, or no JSON at all
Bodies ==
    {[kind |-> "object", payload |-> p] : p \in Payloads}
        \cup {[kind |-> "nonobject"], [kind |-> "malformed"]}

\* hmac.new(key, payload, sha256).hexdigest(): the digest is modelled as a
\* value that two (key, payload) pairs share only when they are equal
Hmac(key, payload) == <<"hmac-sha256", key, payload>>

\* the X-Webhook-Signature header: absent (<<>>) or a digest of the body made
\* with some sender key
SignaturesFor(b) == {<<>>} \cup {Hmac(k, b) : k \in SenderKeys}

Requests ==
    UNION {{[body |-> b, signature |-> sg] : sg \in SignaturesFor(b)} :
              b \in Bodies}

\* mutant: a request without a signature header passes verification
VerifySignature_AcceptAbsent(secret, payload, signature) ==
    IF secret = "" \/ signature = <<>> THEN TRUE
    ELSE Hmac(secret, payload) = signature

\* _verify_signature
VerifySignature(secret, payload, signature) ==
    IF secret = "" THEN TRUE
    ELSE Hmac(secret, payload) = signature

\* mutant: the ledger is not consulted
CheckIdempotency_AlwaysNew(ids, id) == TRUE

\* _check_idempotency: TRUE when the id is new
CheckIdempotency(ids, id) == \A i \in 1..Len(ids) : ids[i] # id

\* _mark_processed
MarkProcessed(ids, id) ==
    IF \A i \in 1..Len(ids) : ids[i] # id THEN Append(ids, id) ELSE ids

\* the network-specific `data` of a WebhookEvent
NetworkData(net) ==
    CASE net = "ETH" -> "from,to,value,gas_price,gas_used"
      [] net = "SOL" -> "accounts,instructions,fee,slot"
      [] OTHER -> "inputs,outputs,fee,size"

NoWebhookEvent == [event_id |-> "none"]

\* _parse_event and the four network parsers
ParseEvent(payload) ==
    LET net == Upper(payload.network)
    IN  IF net \in KnownNetworks
        THEN [event_id |-> payload.event_id, network |-> net,
              tx_hash |-> payload.tx_hash,
              confirmation_count |-> payload.confirmations,
              timestamp |-> payload.timestamp, event_type |-> payload.type,
              data |-> NetworkData(net)]
        ELSE NoWebhookEvent

Response(req, status, text, id, steps) ==
    [req |-> req, status |-> status, outcome |-> text, event_id |-> id,
     steps |-> steps]

\* mutant: the network parser runs before the ledger is consulted
HandleResult_ParseFirst(req, secret, ids) ==
    IF ~VerifySignature(secret, req.body, req.signature)
    THEN Response(req, 401, "Invalid signature", "", <<"signature">>)
    ELSE IF req.body.kind = "malformed"
    THEN Response(req, 400, "Invalid JSON", "", <<"signature", "json">>)
    ELSE IF req.body.kind = "nonobject"
    THEN Response(req, 500, "Internal server error", "",
                  <<"signature", "json", "event_id">>)
    ELSE IF req.body.payload.event_id = ""
    THEN Response(req, 400, "Missing event_id", "",
                  <<"signature", "json", "event_id">>)
    ELSE IF ParseEvent(req.body.payload) = NoWebhookEvent
    THEN Response(req, 400, "Failed to parse event", "",
                  <<"signature", "json", "event_id", "parse">>)
    ELSE IF ~CheckIdempotency(ids, req.body.payload.event_id)
    THEN Response(req, 200, "duplicate", req.body.payload.event_id,
                  <<"signature", "json", "event_id", "parse", "ledger">>)
    ELSE Response(req, 200, "received", req.body.payload.event_id,
                  <<"signature", "json", "event_id", "parse", "ledger",
                    "store", "mark">>)

\* handle_webhook after request.read() has returned: the response, with the
\* checks that were executed, in order
HandleResult(req, secret, ids) ==
    IF ~VerifySignature(secret, req.body, req.signature)
    THEN Response(req, 401, "Invalid signature", "", <<"signature">>)
    ELSE IF req.body.kind = "malformed"
    THEN Response(req, 400, "Invalid JSON", "", <<"signature", "json">>)
    ELSE IF req.body.kind = "nonobject"
    THEN Response(req, 500, "Internal server error", "",
                  <<"signature", "json", "event_id">>)
    ELSE IF req.body.payload.event_id = ""
    THEN Response(req, 400, "Missing event_id", "",
                  <<"signature", "json", "event_id">>)
    ELSE IF ~CheckIdempotency(ids, req.body.payload.event_id)
    THEN Response(req, 200, "duplicate", req.body.payload.event_id,
                  <<"signature", "json", "event_id", "ledger">>)
    ELSE IF ParseEvent(req.body.payload) = NoWebhookEvent
    THEN Response(req, 400, "Failed to parse event", "",
                  <<"signature", "json", "event_id", "ledger", "parse">>)
    ELSE Response(req, 200, "received", req.body.payload.event_id,
                  <<"signature", "json", "event_id", "ledger", "parse",
                    "store", "mark">>)

\* a request reaches the server: its handler starts and awaits request.read()
ReceiveRequest(req) ==
    /\ delivered < MaxRequests
    /\ delivered' = delivered + 1
    /\ inflight' = inflight (+) SetToBag({req})
    /\ UNCHANGED <<webhook_secret, stored_events, processed_ids, responses>>
    /\ UNCHANGED <<procVars, rpcVars, extVars>>

\* mutant: the id is entered in the ledger before the event is parsed, so a
\* rejected event is marked as seen
HandleWebhook_MarksRejected(req) ==
    /\ BagIn(req, inflight)
    /\ inflight' = inflight (-) SetToBag({req})
    /\ LET res == HandleResult(req, webhook_secret, processed_ids)
       IN  /\ responses' = Append(responses, res)
           /\ IF res.outcome = "received"
              THEN /\ stored_events' =
                        Append(stored_events, ParseEvent(req.body.payload))
                   /\ processed_ids' =
                        MarkProcessed(processed_ids, req.body.payload.event_id)
              ELSE IF res.outcome = "Failed to parse event"
              THEN /\ processed_ids' =
                        MarkProcessed(processed_ids, req.body.payload.event_id)
                   /\ UNCHANGED stored_events
              ELSE UNCHANGED <<stored_events, processed_ids>>
    /\ UNCHANGED <<webhook_secret, delivered>>
    /\ UNCHANGED <<procVars, rpcVars, extVars>>

\* handle_webhook from the return of request.read() to the response: no
\* suspension point in between
HandleWebhook(req) ==
    /\ BagIn(req, inflight)
    /\ inflight' = inflight (-) SetToBag({req})
    /\ LET res == HandleResult(req, webhook_secret, processed_ids)
       IN  /\ responses' = Append(responses, res)
           /\ IF res.outcome = "received"
              THEN /\ stored_events' =
                        Append(stored_events, ParseEvent(req.body.payload))
                   /\ processed_ids' =
                        MarkProcessed(processed_ids, req.body.payload.event_id)
              ELSE UNCHANGED <<stored_events, processed_ids>>
    /\ UNCHANGED <<webhook_secret, delivered>>
    /\ UNCHANGED <<procVars, rpcVars, extVars>>

Receive == \E req \in Requests : ReceiveRequest(req)

Handle == \E req \in Requests : HandleWebhook(req)

\* _save_events: write_text either replaces the file or raises IOError, which
\* is logged and swallowed, leaving the file as it was
SaveEvents(file, data, written) == IF written THEN data ELSE file

\* handle_webhook on a disk whose writes can fail: lines 336-354 with the
\* outcomes of the two write_text calls (store, then mark)
HandleWebhookIO(req, w1, w2) ==
    /\ BagIn(req, inflight)
    /\ inflight' = inflight (-) SetToBag({req})
    /\ LET res == HandleResult(req, webhook_secret, processed_ids)
           file0 == [events |-> stored_events, processed_ids |-> processed_ids]
           file1 == SaveEvents(file0,
                               [file0 EXCEPT !.events =
                                    Append(@, ParseEvent(req.body.payload))],
                               w1)
           file2 == SaveEvents(file1,
                               [file1 EXCEPT !.processed_ids =
                                    MarkProcessed(@, req.body.payload.event_id)],
                               w2)
       IN  /\ responses' = Append(responses, res)
           /\ IF res.outcome = "received"
              THEN /\ stored_events' = file2.events
                   /\ processed_ids' = file2.processed_ids
              ELSE UNCHANGED <<stored_events, processed_ids>>
    /\ UNCHANGED <<webhook_secret, delivered>>
    /\ UNCHANGED <<procVars, rpcVars, extVars>>

HandleIO == \E req \in Requests, w1, w2 \in BOOLEAN : HandleWebhookIO(req, w1, w2)

\* WebhookReceiver.__init__ with a fresh events file
RecvInit(secret) ==
    /\ webhook_secret = secret
    /\ stored_events = <<>>
    /\ processed_ids = <<>>
    /\ inflight = EmptyBag
    /\ responses = <<>>
    /\ delivered = 0

\* EventProcessor.__init__ with fresh files
ProcInit(threshold, maxRetries) ==
    /\ confirmation_threshold = threshold
    /\ max_retries = maxRetries
    /\ event_queue = <<>>
    /\ enqueue_tasks = <<>>
    /\ processing = FALSE
    /\ processed_events = [id \in EventIds |-> NoEvent]
    /\ trades = [t \in TradeIds |-> NoTrade]
    /\ failed_events = <<>>
    /\ pc = "init"
    /\ cur = NoEvent
    /\ attempt = 0
    /\ outcome = "none"
    /\ replay_result = "none"
    /\ enqueued = 0
    /\ replays = 0

\* ------------------------------------------------------------ RPC client
\* class NetworkType
NetworkTypes == {"ethereum", "bitcoin", "solana", "litecoin"}

\* the endpoint configurations: no URL at all, or two of the four networks
UrlOf(n) ==
    CASE n = "ethereum" -> "http://eth"
      [] n = "bitcoin" -> "http://btc"
      [] n = "solana" -> "http://sol"
      [] OTHER -> "http://ltc"

UrlConfigs ==
    {[n \in NetworkTypes |-> IF n \in S THEN UrlOf(n) ELSE ""] :
        S \in {{}, {"ethereum", "solana"}}}

\* times are in milliseconds
TimeoutArgs == {1000, DefaultTimeoutMs}
RpcMaxRetriesArgs == 0..MaxRpcRetries
BackoffFactors == {DefaultBackoffFactor, 3}
Latencies == {500, 1500, 3000}
HttpStatuses == {200, 500}

\* what the body of a response decodes to: an object with a result and no
\* error member, with "error": null, with an error object, with an error that
\* is a string; a body that is no JSON; a body not served as application/json
BodyKinds == {"result", "error_null", "error_object", "error_string",
              "undecodable", "wrong_content_type"}

\* what the network does with one HTTP request
Exchanges ==
    {[kind |-> "client_error", latency |-> 0, status |-> 0, body |-> "none"],
     [kind |-> "no_response", latency |-> 0, status |-> 0, body |-> "none"]}
        \cup [kind : {"response"}, latency : Latencies, status : HttpStatuses,
              body : BodyKinds]

\* the exception classes involved, each with its base classes
Bases(c) ==
    CASE c = "RPCConnectionError" -> {"RPCConnectionError", "RPCError", "Exception"}
      [] c = "RPCTimeoutError" -> {"RPCTimeoutError", "RPCError", "Exception"}
      [] c = "RPCError" -> {"RPCError", "Exception"}
      [] c = "aiohttp.ContentTypeError" ->
             {"aiohttp.ContentTypeError", "aiohttp.ClientError", "Exception"}
      [] c = "aiohttp.ClientError" -> {"aiohttp.ClientError", "Exception"}
      [] c = "asyncio.TimeoutError" -> {"asyncio.TimeoutError", "Exception"}
      [] c = "json.JSONDecodeError" -> {"json.JSONDecodeError", "Exception"}
      [] c = "AttributeError" -> {"AttributeError", "Exception"}
      [] OTHER -> {c}

IsInstance(c, cls) == cls \in Bases(c)

Fault(type, text) == [type |-> type, text |-> text]
NoFault == Fault("none", "")

\* the outcome of `async with session.request(..., timeout=ClientTimeout(total))`
\* followed by `await response.json()`: the class of the exception raised
\* ("none" when the body was decoded), the status and the decoded body
HttpOutcome(ex, total) ==
    IF ex.kind = "client_error"
    THEN [raised |-> "aiohttp.ClientError", status |-> 0, body |-> "none"]
    ELSE IF ex.kind = "no_response" \/ ex.latency > total
    THEN [raised |-> "asyncio.TimeoutError", status |-> 0, body |-> "none"]
    ELSE IF ex.body = "undecodable"
    THEN [raised |-> "json.JSONDecodeError", status |-> ex.status, body |-> "none"]
    ELSE IF ex.body = "wrong_content_type"
    THEN [raised |-> "aiohttp.ContentTypeError", status |-> ex.status, body |-> "none"]
    ELSE [raised |-> "none", status |-> ex.status, body |-> ex.body]

\* float ** int for the integral factors used here
RECURSIVE Pow(_, _)
Pow(b, n) == IF n = 0 THEN 1 ELSE b * Pow(b, n - 1)

\* _get_rpc_url
GetRpcUrl(urls, network) == urls[network]

\* line 167: timeout=aiohttp.ClientTimeout(total=self.timeout)
RequestTimeout(clientTimeout) == clientTimeout

\* lines 161-176: one pass through the try block: the class raised inside it
\* ("none" when the data is returned)
TryBlock(ex, total) ==
    LET o == HttpOutcome(ex, total)
    IN  IF o.raised # "none" THEN o.raised
        ELSE IF o.body = "error_object" THEN "RPCError"
        ELSE IF o.body = "error_string" THEN "AttributeError"
        ELSE "none"

\* mutant: every failure is recorded as a connection error
Handled_AllConnection(raised, clientTimeout) ==
    IF \/ IsInstance(raised, "asyncio.TimeoutError")
       \/ IsInstance(raised, "aiohttp.ClientError")
       \/ IsInstance(raised, "RPCError")
    THEN Fault("RPCConnectionError", "Connection error")
    ELSE NoFault

\* lines 178-188: the value the except clauses give last_error for an
\* exception of class `raised`; NoFault when no clause matches and the
\* exception leaves _make_request
Handled(raised, clientTimeout) ==
    IF IsInstance(raised, "asyncio.TimeoutError")
    THEN Fault("RPCTimeoutError", "RPC request timed out")
    ELSE IF IsInstance(raised, "aiohttp.ClientError")
    THEN Fault("RPCConnectionError", "Connection error")
    ELSE IF IsInstance(raised, "RPCError")
    THEN Fault("RPCError", "RPC error")
    ELSE NoFault

\* line 191
SleepsAfter(attemptIdx, maxRetries) == attemptIdx < maxRetries - 1

\* mutant: the exponent counts attempts from one
WaitTime_OneIndexed(factor, attemptIdx) == Pow(factor, attemptIdx + 1)

\* line 192
WaitTime(factor, attemptIdx) == Pow(factor, attemptIdx)

\* mutant: the loop makes one attempt more than max_retries
LoopEnds_OneMore(attemptIdx, maxRetries) == attemptIdx + 1 >= maxRetries + 1

\* line 160: `for attempt in range(self.max_retries)` is exhausted after the
\* pass with this index
LoopEnds(attemptIdx, maxRetries) == attemptIdx + 1 >= maxRetries

\* mutant: a missing URL is treated like an endpoint that may answer later
MissingUrl_Retried(url) == FALSE

\* line 150
MissingUrl(url) == url = ""

\* _make_request raises exc; cause names what made it fail
RqRaise(exc, cause) ==
    /\ rq_pc' = "raised"
    /\ rq_result' = exc
    /\ faults' = faults \cup {[cause |-> cause, type |-> exc.type]}

\* a query method calls _make_request with the URL configured for its
\* network: lines 150-160, up to the first request
RpcCall(network) ==
    /\ rq_pc \in {"idle", "returned", "raised"}
    /\ calls < MaxCalls
    /\ calls' = calls + 1
    /\ rq_url' = GetRpcUrl(rpc_urls, network)
    /\ rq_log' = <<>>
    /\ sleeps' = <<>>
    /\ rq_attempt' = 0
    /\ last_error' = NoFault
    /\ IF MissingUrl(rq_url')
       THEN RqRaise(Fault("RPCConnectionError", "RPC URL not configured"),
                    "no_endpoint")
       ELSE IF rpc_max_retries <= 0
       THEN RqRaise(Fault("RPCConnectionError", "Failed to connect to RPC endpoint"),
                    "no_attempt")
       ELSE /\ rq_pc' = "request"
            /\ rq_result' = NoFault
            /\ UNCHANGED faults
    /\ UNCHANGED <<rpc_urls, timeout, rpc_max_retries, backoff_factor,
                   hc_network, hc_result, hc_log, probes>>
    /\ UNCHANGED <<procVars, recvVars, extVars>>

\* lines 161-197: one pass of the loop, from the request to the return, the
\* sleep or the raise
RpcAttempt(ex) ==
    /\ rq_pc = "request"
    /\ LET total == RequestTimeout(timeout)
           raised == TryBlock(ex, total)
           err == Handled(raised, timeout)
       IN  /\ rq_log' = Append(rq_log, [timeout |-> total, raised |-> raised,
                                        body |-> IF raised = "none"
                                                 THEN HttpOutcome(ex, total).body
                                                 ELSE "none"])
           /\ IF raised = "none"
              THEN /\ rq_pc' = "returned"
                   /\ rq_result' = Fault("data", HttpOutcome(ex, total).body)
                   /\ UNCHANGED <<last_error, sleeps, faults>>
              ELSE IF err = NoFault
              THEN /\ RqRaise(Fault(raised, "escaped"), raised)
                   /\ UNCHANGED <<last_error, sleeps>>
              ELSE /\ last_error' = err
                   /\ sleeps' = IF SleepsAfter(rq_attempt, rpc_max_retries)
                                THEN Append(sleeps, WaitTime(backoff_factor, rq_attempt))
                                ELSE sleeps
                   /\ IF LoopEnds(rq_attempt, rpc_max_retries)
                      THEN RqRaise(err, raised)
                      ELSE /\ rq_pc' = "sleep"
                           /\ UNCHANGED <<rq_result, faults>>
    /\ UNCHANGED <<rpc_urls, timeout, rpc_max_retries, backoff_factor, rq_url,
                   rq_attempt, calls, hc_network, hc_result, hc_log, probes>>
    /\ UNCHANGED <<procVars, recvVars, extVars>>

\* asyncio.sleep(wait_time) returns and the loop takes its next index
RpcWake ==
    /\ rq_pc = "sleep"
    /\ rq_attempt' = rq_attempt + 1
    /\ rq_pc' = "request"
    /\ UNCHANGED <<rpc_urls, timeout, rpc_max_retries, backoff_factor, rq_url,
                   last_error, rq_result, rq_log, sleeps, calls, faults,
                   hc_network, hc_result, hc_log, probes>>
    /\ UNCHANGED <<procVars, recvVars, extVars>>

Call == \E network \in NetworkTypes : RpcCall(network)

AttemptRequest == \E ex \in Exchanges : RpcAttempt(ex)

\* mutant: the probe uses the client's general timeout
ProbeTimeout_Client(clientTimeout) == clientTimeout

\* line 221: timeout=aiohttp.ClientTimeout(total=2.0)
ProbeTimeout(clientTimeout) == HealthTimeoutMs

\* mutant: the except clause names only the timeout and the transport error
ProbeCatches_Narrow(raised) ==
    \/ IsInstance(raised, "asyncio.TimeoutError")
    \/ IsInstance(raised, "aiohttp.ClientError")

\* line 228: except (asyncio.TimeoutError, aiohttp.ClientError, Exception)
ProbeCatches(raised) ==
    \/ IsInstance(raised, "asyncio.TimeoutError")
    \/ IsInstance(raised, "aiohttp.ClientError")
    \/ IsInstance(raised, "Exception")

\* line 224: is_healthy
IsHealthy(o) ==
    /\ o.status = 200
    /\ o.body \notin {"error_null", "error_object", "error_string"}

\* lines 213-230: what health_check returns ("True", "False") or the class it
\* raises, given the outcome of its one request
ProbeResult(o) ==
    IF o.raised # "none"
    THEN IF ProbeCatches(o.raised) THEN "False" ELSE o.raised
    ELSE IF IsHealthy(o) THEN "True" ELSE "False"

\* health_check(network)
HealthCheck(network, ex) ==
    /\ probes < MaxProbes
    /\ probes' = probes + 1
    /\ hc_network' = network
    /\ LET url == GetRpcUrl(rpc_urls, network)
           total == ProbeTimeout(timeout)
       IN  IF MissingUrl(url)
           THEN /\ hc_result' = "False"
                /\ hc_log' = <<>>
           ELSE /\ hc_result' = ProbeResult(HttpOutcome(ex, total))
                /\ hc_log' = <<[url |-> url, timeout |-> total, exchange |-> ex]>>
    /\ UNCHANGED <<rpc_urls, timeout, rpc_max_retries, backoff_factor, rq_pc,
                   rq_url, rq_attempt, last_error, rq_result, rq_log, sleeps,
                   calls, faults>>
    /\ UNCHANGED <<procVars, recvVars, extVars>>

Probe == \E network \in NetworkTypes, ex \in Exchanges : HealthCheck(network, ex)

\* the exchanges a sweep of all endpoints is tried with
SweepExchanges ==
    {ex \in Exchanges :
        \/ ex.kind # "response"
        \/ /\ ex.latency \in {500, 3000}
           /\ ex.body \in {"result", "error_null", "undecodable"}}

\* mutant: every network is probed, configured or not
ConfiguredNetworks_All(urls) == NetworkTypes

\* lines 244-247: the networks whose _get_rpc_url is truthy
ConfiguredNetworks(urls) == {n \in NetworkTypes : GetRpcUrl(urls, n) # ""}

\* lines 208-230: what health_check(network) gives when its request, if it
\* makes one, goes as ex
HealthCheckValue(urls, clientTimeout, network, ex) ==
    IF MissingUrl(GetRpcUrl(urls, network))
    THEN "False"
    ELSE ProbeResult(HttpOutcome(ex, ProbeTimeout(clientTimeout)))

\* line 253: status if isinstance(status, bool) else False
GatherValue(status) == IF status \in {"True", "False"} THEN status ELSE "False"

\* health_check_all(): exs[n] is how the request to network n goes
HealthCheckAll(exs) ==
    /\ sweeps < MaxSweeps
    /\ sweeps' = sweeps + 1
    /\ hca_exchanges' = exs
    /\ hca_result' =
          [n \in DOMAIN exs |->
              GatherValue(HealthCheckValue(rpc_urls, timeout, n, exs[n]))]
    /\ UNCHANGED <<stop_requested, tasks, started, q_method, q_shape, q_result,
                   queries, got>>
    /\ UNCHANGED <<procVars, recvVars, rpcVars>>

ProbeAll ==
    \E exs \in [ConfiguredNetworks(rpc_urls) -> SweepExchanges] :
        HealthCheckAll(exs)

\* the typed query methods
QueryMethods ==
    {"eth_get_balance", "eth_get_transaction_count", "eth_gas_price",
     "btc_get_balance", "btc_get_block_count", "btc_get_transaction",
     "sol_get_balance", "sol_get_account_info", "sol_get_signature_statuses",
     "ltc_get_balance", "ltc_get_block_count", "ltc_get_transaction"}

\* the methods that read a field inside `result`
NestedMethods == {"btc_get_balance", "sol_get_balance", "ltc_get_balance"}

\* the default each method passes to dict.get
ZeroValue(m) ==
    CASE m \in {"eth_get_balance", "eth_get_transaction_count", "eth_gas_price"}
             -> "0x0"
      [] m \in {"btc_get_balance", "ltc_get_balance"} -> "0.0"
      [] m \in {"btc_get_block_count", "ltc_get_block_count", "sol_get_balance"}
             -> "0"
      [] OTHER -> "{}"

\* the `result` member of a successful response: not there, null, {}, an
\* object without the field a nested method reads, or the full value
ResultShapes == {"absent", "null", "empty_object", "object_without_inner", "value"}

\* response.get("result", default)
GetResult(shape, default) ==
    CASE shape = "absent" -> default
      [] shape = "null" -> "None"
      [] shape = "empty_object" -> "{}"
      [] shape = "object_without_inner" -> "object"
      [] OTHER -> "value"

\* response.get("result", {}).get(inner, zero): None has no attribute get
GetInner(r, zero) ==
    CASE r = "None" -> "AttributeError"
      [] r \in {"{}", "object"} -> zero
      [] OTHER -> "inner value"

\* what a typed query method returns, or the class it raises, for a
\* successful response of _make_request
QueryResult(m, shape) ==
    IF m \in NestedMethods
    THEN GetInner(GetResult(shape, "{}"), ZeroValue(m))
    ELSE GetResult(shape, ZeroValue(m))

\* a typed query method is called and _make_request returns a response
TypedQuery(m, shape) ==
    /\ queries < MaxQueries
    /\ queries' = queries + 1
    /\ q_method' = m
    /\ q_shape' = shape
    /\ q_result' = QueryResult(m, shape)
    /\ UNCHANGED <<stop_requested, tasks, started, hca_exchanges, hca_result,
                   sweeps, got>>
    /\ UNCHANGED <<procVars, recvVars, rpcVars>>

Query == \E m \in QueryMethods, shape \in ResultShapes : TypedQuery(m, shape)

\* RPCClient.__init__
RpcInit(urls, t, maxRetries, factor) ==
    /\ rpc_urls = urls
    /\ timeout = t
    /\ rpc_max_retries = maxRetries
    /\ backoff_factor = factor
    /\ rq_pc = "idle"
    /\ rq_url = ""
    /\ rq_attempt = 0
    /\ last_error = NoFault
    /\ rq_result = NoFault
    /\ rq_log = <<>>
    /\ sleeps = <<>>
    /\ calls = 0
    /\ faults = {}
    /\ hc_network = "none"
    /\ hc_result = "none"
    /\ hc_log = <<>>
    /\ probes = 0

\* a client built with the default arguments and no URL in the environment
RpcInitDefault ==
    RpcInit([n \in NetworkTypes |-> ""], DefaultTimeoutMs, DefaultRpcRetries,
            DefaultBackoffFactor)

\* nothing has been asked of the processor or the client yet
ExtInit ==
    /\ stop_requested = FALSE
    /\ tasks = EmptyBag
    /\ started = EmptyBag
    /\ q_method = "none"
    /\ q_shape = "none"
    /\ q_result = "none"
    /\ queries = 0
    /\ hca_exchanges = <<>>
    /\ hca_result = <<>>
    /\ sweeps = 0
    /\ got = NoCall

\* ---------------------------------------------------------- specifications
\* the consumer loop with its producers and the dead-letter replay
Init ==
    /\ \E m \in MaxRetriesArgs : ProcInit(DefaultThreshold, m)
    /\ RecvInit("")
    /\ RpcInitDefault
    /\ ExtInit

Next ==
    \/ Start
    \/ ConsumerBegin
    \/ Poll
    \/ PollTimeout
    \/ Retry
    \/ Stop
    \/ Enqueue
    \/ RetryDlq
    \/ RunEnqueueTask

Spec == Init /\ [][Next]_vars

\* _process_event applied directly to any sequence of events
InitApply ==
    /\ \E th \in Thresholds, m \in MaxRetriesArgs : ProcInit(th, m)
    /\ RecvInit("")
    /\ RpcInitDefault
    /\ ExtInit

NextApply == DirectProcess

SpecApply == InitApply /\ [][NextApply]_vars

\* the processor with its operators' queries and replays, next to a webhook
\* receiver serving requests in the same process
FrameInputs == {e \in QueueInputs : e.event_id = "e1" /\ e.trade_id = "t1"}

FrameRequests ==
    {r \in Requests : /\ r.signature = <<>>
                      /\ r.body.kind = "object"
                      /\ r.body.payload.event_id = "e1"}

EnqueueFrame == \E e \in FrameInputs : EnqueueEvent(e)

ReceiveFrame ==
    /\ delivered < MaxServed
    /\ \E req \in FrameRequests : ReceiveRequest(req)

NextFrame ==
    \/ Start
    \/ ConsumerBegin
    \/ Poll
    \/ PollTimeout
    \/ Retry
    \/ EnqueueFrame
    \/ RetryDlq
    \/ RunEnqueueTask
    \/ Read
    \/ ReceiveFrame
    \/ Handle

SpecFrame == Init /\ [][NextFrame]_vars

\* _process_event coroutines started concurrently and run by the event loop
NextConc ==
    \/ StartAny
    \/ RunAny

SpecConc == InitApply /\ [][NextConc]_vars

\* _process_event applied directly on a disk whose writes can fail
NextApplyIO == DirectProcessIO

SpecApplyIO == InitApply /\ [][NextApplyIO]_vars

\* _process_event applied to trades an external actor may mark failed
NextMark ==
    \/ DirectProcess
    \/ MarkFailedAny

SpecMark == InitApply /\ [][NextMark]_vars

\* the webhook receiver serving concurrent requests
InitRecv ==
    /\ \E m \in MaxRetriesArgs : ProcInit(DefaultThreshold, m)
    /\ \E secret \in Secrets : RecvInit(secret)
    /\ RpcInitDefault
    /\ ExtInit

NextRecv ==
    \/ Receive
    \/ Handle

SpecRecv == InitRecv /\ [][NextRecv]_vars

\* the webhook receiver on a disk whose writes can fail
NextRecvIO ==
    \/ Receive
    \/ HandleIO

SpecRecvIO == InitRecv /\ [][NextRecvIO]_vars

\* the RPC client answering queries, one call at a time
InitRpc ==
    /\ \E m \in MaxRetriesArgs : ProcInit(DefaultThreshold, m)
    /\ RecvInit("")
    /\ \E urls \in UrlConfigs, t \in TimeoutArgs, r \in RpcMaxRetriesArgs,
          f \in BackoffFactors : RpcInit(urls, t, r, f)
    /\ ExtInit

NextRpc ==
    \/ Call
    \/ AttemptRequest
    \/ RpcWake

SpecRpc == InitRpc /\ [][NextRpc]_vars

\* the RPC client probing all its endpoints at once
NextHealthAll == ProbeAll

SpecHealthAll == InitRpc /\ [][NextHealthAll]_vars

\* the typed query methods applied to the responses a node can give
NextQuery == Query

SpecQuery == Init /\ [][NextQuery]_vars

\* the RPC client probing its endpoints
NextHealth == Probe

SpecHealth == InitRpc /\ [][NextHealth]_vars

\* the consumer loop under the event loop's scheduling: a task that is ready
\* to run is run, and a sleep or a poll that can end does end
ConsumerStep == ConsumerBegin \/ Poll \/ PollTimeout \/ Retry

\* progress of the loop does not depend on the trade: the producers of this
\* specification enqueue events of one trade
LiveInputs == {e \in QueueInputs : e.trade_id = "t1"}

EnqueueLive == \E e \in LiveInputs : EnqueueEvent(e)

NextLive ==
    \/ Start
    \/ ConsumerBegin
    \/ Poll
    \/ PollTimeout
    \/ Retry
    \/ Stop
    \/ EnqueueLive
    \/ RetryDlq
    \/ RunEnqueueTask

\* the consumer loop fed with events of one trade that differ in count and
\* in timestamp
OrderInputs ==
    {Event(id, "t1", tx, cnt, ts, "confirmation", d, 0) :
        id \in EventIds, tx \in TxHashes, cnt \in {2, 3},
        ts \in {"ts1", "ts2"}, d \in DataValues}

EnqueueOrder == \E e \in OrderInputs : EnqueueEvent(e)

NextOrder ==
    \/ Start
    \/ ConsumerBegin
    \/ Poll
    \/ PollTimeout
    \/ Retry
    \/ EnqueueOrder

SpecOrder == Init /\ [][NextOrder]_vars

SpecLive ==
    /\ Init
    /\ [][NextLive]_vars
    /\ WF_vars(ConsumerStep)
    /\ WF_vars(RunEnqueueTask)

\* ------------------------------------------------------------------ claims
\* the trade record before a step, a new record for a trade not yet stored
Before(t) == IF trades[t] = NoTrade THEN NewTrade ELSE trades[t]

\* the summary of the event a step has just applied to trade t
LastApplied(t) == trades'[t].events[Len(trades'[t].events)]

Applied(t) == trades'[t] # trades[t]

\* C1: whenever an event is applied to a trade, the trade's confirmations
\* does not decrease: it becomes the larger of its previous value (0 for a
\* new trade) and the event's confirmation_count.
C1_ConfirmationsMonotonic ==
    [][\A t \in TradeIds :
          Applied(t) =>
              /\ trades'[t].confirmations >= Before(t).confirmations
              /\ trades'[t].confirmations >= LastApplied(t).confirmation_count
              /\ trades'[t].confirmations \in
                     {Before(t).confirmations, LastApplied(t).confirmation_count}]_vars

\* a later event that reports fewer (zero or negative) confirmations was applied
C1_Witness ==
    \E t \in TradeIds :
        /\ trades[t] # NoTrade
        /\ Len(trades[t].events) = 2
        /\ trades[t].events[1].confirmation_count > 0
        /\ trades[t].events[2].confirmation_count <= 0
        /\ trades[t].confirmations = trades[t].events[1].confirmation_count

Rank(s) ==
    CASE s = PENDING -> 1
      [] s = CONFIRMED -> 2
      [] s = COMPLETED -> 3
      [] OTHER -> 0

\* C2: applying an event never moves a trade's status backward in the order
\* pending, confirmed, completed, and never sets it to failed.
C2_StatusForward ==
    [][\A t \in TradeIds :
          Applied(t) =>
              /\ Rank(Before(t).status) > 0 =>
                     Rank(trades'[t].status) >= Rank(Before(t).status)
              /\ trades'[t].status = FAILED => Before(t).status = FAILED]_vars

\* a completed trade has received a later ordinary event below the threshold
C2_Witness ==
    \E t \in TradeIds :
        /\ trades[t] # NoTrade
        /\ trades[t].status = COMPLETED
        /\ Len(trades[t].events) = 2
        /\ trades[t].events[2].confirmation_count < confirmation_threshold
        /\ trades[t].events[2].event_type = "confirmation"

\* C10: applied to a pending or new trade, an ordinary event at or above the
\* threshold confirms the trade and records confirmed_at; an event below the
\* threshold leaves it pending without confirmed_at.
C10_ThresholdBoundary ==
    [][\A t \in TradeIds :
          (Applied(t) /\ Before(t).status = PENDING) =>
              /\ (/\ LastApplied(t).confirmation_count >= confirmation_threshold
                  /\ LastApplied(t).event_type # "final_confirmation")
                     => (trades'[t].status = CONFIRMED /\ trades'[t].confirmed_at)
              /\ LastApplied(t).confirmation_count < confirmation_threshold
                     => (trades'[t].status = PENDING /\ ~trades'[t].confirmed_at)]_vars

\* threshold 3: one trade confirmed by a count of 3, another left pending by 2
C10_Witness ==
    /\ confirmation_threshold = 3
    /\ \E t1, t2 \in TradeIds :
          /\ trades[t1] # NoTrade /\ trades[t2] # NoTrade
          /\ Len(trades[t1].events) = 1 /\ Len(trades[t2].events) = 1
          /\ trades[t1].events[1].confirmation_count = 3
          /\ trades[t1].events[1].event_type = "confirmation"
          /\ trades[t1].status = CONFIRMED /\ trades[t1].confirmed_at
          /\ trades[t2].events[1].confirmation_count = 2
          /\ trades[t2].status = PENDING /\ ~trades[t2].confirmed_at

\* the event a step of the consumer loop works on, and the number of the
\* attempt it makes
TheEvent == IF pc = "poll" THEN Head(event_queue) ELSE cur
AttemptNo == attempt + 1

\* a step in which an attempt of the retry wrapper raised
FailedAttemptStep ==
    /\ pc \in {"poll", "backoff"}
    /\ outcome' \in Errors
    /\ attempt' # attempt

LastDlq(dlq) == dlq[Len(dlq)]

\* C5: the attempts of a dequeued event are numbered 1, 2, ... on the same
\* event; a raising attempt before the 5th writes nothing and is followed by a
\* further attempt; the 5th raising attempt appends exactly one dead-letter
\* entry whose original_event is the dequeued event, field for field, and
\* whose error_message is the text of that last error; the dead-letter store
\* grows in no other way.
C5_FiveAttemptsThenDeadLetter ==
    [][/\ FailedAttemptStep =>
             /\ pc = "poll" => (attempt = 0 /\ event_queue # <<>>)
             /\ AttemptNo <= 5
             /\ AttemptNo < 5 =>
                    /\ failed_events' = failed_events
                    /\ pc' = "backoff"
                    /\ cur' = TheEvent
                    /\ attempt' = AttemptNo
             /\ AttemptNo = 5 =>
                    /\ Len(failed_events') = Len(failed_events) + 1
                    /\ SubSeq(failed_events', 1, Len(failed_events)) = failed_events
                    /\ LastDlq(failed_events').original_event = TheEvent
                    /\ LastDlq(failed_events').event_id = TheEvent.event_id
                    /\ LastDlq(failed_events').trade_id = TheEvent.trade_id
                    /\ LastDlq(failed_events').error_message = outcome'
                    /\ pc' # "backoff"
       /\ Len(failed_events') > Len(failed_events) =>
             (FailedAttemptStep /\ AttemptNo = 5)]_vars

\* an event has failed its attempts, the last one with err_b, and the one
\* entry written carries that error text and the event, which was applied to
\* no trade
C5_Witness ==
    /\ outcome = "err_b"
    /\ Len(failed_events) = 1
    /\ failed_events[1].error_message = "err_b"
    /\ failed_events[1].original_event \in QueueInputs
    /\ TotalApplied = 0
    /\ pc = "poll"

\* C6: every dead-letter entry written by the consumer loop records the
\* number of attempts consumed, 5, in retry_count.
C6_DlqRecordsAttempts ==
    \A i \in 1..Len(failed_events) : failed_events[i].retry_count = MaxAttempts

\* C7: a retry_dlq_event call that finds its entry removes the first entry
\* with that id and no other, keeps the order of the rest, returns True and
\* creates one enqueue task for the entry's original_event with retry_count
\* one greater; that task puts exactly this event at the end of the queue;
\* trades and the processed set are not touched.
C7_ReplayRemovesAndRequeues ==
    [][/\ replays' = replays + 1 =>
             \E i \in 1..Len(failed_events) :
                 /\ \A j \in 1..(i - 1) :
                        failed_events[j].event_id # failed_events[i].event_id
                 /\ Len(failed_events') = Len(failed_events) - 1
                 /\ \A k \in 1..Len(failed_events') :
                        failed_events'[k] = failed_events[IF k < i THEN k ELSE k + 1]
                 /\ replay_result' = "true"
                 /\ Len(enqueue_tasks') = Len(enqueue_tasks) + 1
                 /\ SubSeq(enqueue_tasks', 1, Len(enqueue_tasks)) = enqueue_tasks
                 /\ LET o == failed_events[i].original_event
                        r == enqueue_tasks'[Len(enqueue_tasks')]
                    IN  /\ r.retry_count = o.retry_count + 1
                        /\ [r EXCEPT !.retry_count = o.retry_count] = o
                 /\ UNCHANGED <<event_queue, trades, processed_events>>
       /\ Len(enqueue_tasks') < Len(enqueue_tasks) =>
             /\ event_queue' = Append(event_queue, Head(enqueue_tasks))
             /\ enqueue_tasks' = Tail(enqueue_tasks)
       /\ Len(failed_events') < Len(failed_events) => replays' = replays + 1]_vars

\* one of two dead-letter entries was replayed and its event, retry_count 1,
\* is on the queue while the other entry is still stored
C7_Witness ==
    /\ replays = 1
    /\ replay_result = "true"
    /\ Len(failed_events) = 1
    /\ \E k \in 1..Len(event_queue) :
          /\ event_queue[k].retry_count = 1
          /\ event_queue[k].event_id # failed_events[1].event_id

\* events put on the queue so far, and events the loop has finished with
PutCount == enqueued + replays - Len(enqueue_tasks)
SettledCount == TotalApplied + Len(failed_events) + replays

Running == pc \in {"poll", "backoff"} /\ processing

\* a step in which the loop finishes with an event
SettleStep ==
    TotalApplied' + Len(failed_events') > TotalApplied + Len(failed_events)

\* C8: while the loop runs and is not stopped, the n-th event put on the
\* queue is eventually applied or dead-lettered, for every n; finishing an
\* event either appends it to its trade and enters its id in the processed
\* set, or appends its dead-letter entry, and in both cases the loop goes on
\* polling unless stop was requested.
C8_EveryEventSettled ==
    /\ \A n \in 1..(MaxEvents + MaxReplays) :
          (PutCount >= n /\ Running) ~> (SettledCount >= n \/ ~processing)
    /\ [][/\ (pc = "backoff" /\ pc' # "backoff") => SettleStep
          /\ SettleStep =>
                /\ pc' = (IF processing THEN "poll" ELSE "done")
                /\ processing' = processing
                /\ \/ /\ processed_events'[TheEvent.event_id] = TheEvent
                      /\ Len(trades'[TheEvent.trade_id].events)
                            = Len(Before(TheEvent.trade_id).events) + 1
                      /\ failed_events' = failed_events
                   \/ /\ failed_events' =
                            Append(failed_events, LastDlq(failed_events'))
                      /\ LastDlq(failed_events').original_event = TheEvent
                      /\ trades' = trades]_vars

\* an event was dead-lettered and the event queued behind it was applied
C8_Witness ==
    /\ Len(failed_events) = 1
    /\ enqueued = 2
    /\ TotalApplied = 1
    /\ event_queue = <<>>
    /\ processing
    /\ pc = "poll"
    /\ \E id \in EventIds :
          /\ processed_events[id] # NoEvent
          /\ id # failed_events[1].event_id

\* a delivery that is correctly signed, well-formed and names a known network
ValidDelivery(req) ==
    /\ webhook_secret # "" => req.signature = Hmac(webhook_secret, req.body)
    /\ req.body.kind = "object"
    /\ req.body.payload.event_id # ""
    /\ Upper(req.body.payload.network) \in KnownNetworks

\* the answered valid deliveries of event id
ValidResponses(id) ==
    {i \in 1..Len(responses) :
        /\ ValidDelivery(responses[i].req)
        /\ responses[i].req.body.payload.event_id = id}

StoredWith(id) == {k \in 1..Len(stored_events) : stored_events[k].event_id = id}

\* C3: among the answered valid deliveries of one event_id, whatever the
\* order in which the concurrent handlers ran, exactly one was answered
\* 'received' and every other one 'duplicate', and the persisted events list
\* holds exactly one event with that id.
C3_OneReceivedRestDuplicate ==
    \A id \in EventIds :
        ValidResponses(id) # {} =>
            /\ \E i \in ValidResponses(id) :
                  /\ responses[i].outcome = "received"
                  /\ responses[i].status = 200
                  /\ \A j \in ValidResponses(id) \ {i} :
                        /\ responses[j].outcome = "duplicate"
                        /\ responses[j].status = 200
            /\ Cardinality(StoredWith(id)) = 1

\* three valid deliveries of e1 were answered: one 'received', two 'duplicate'
C3_Witness ==
    /\ Cardinality(ValidResponses("e1")) = 3
    /\ Cardinality({i \in ValidResponses("e1") :
                       responses[i].outcome = "duplicate"}) = 2
    /\ Cardinality(StoredWith("e1")) = 1

NewResponse == responses'[Len(responses')]

\* C4: with a secret configured, a request whose signature header is absent
\* or is not the HMAC of its body under that secret is answered 401 after the
\* signature check alone, and the events list and the ledger are not written;
\* with no secret configured no request is answered 401 and every request
\* goes on to JSON parsing.
C4_SignatureGate ==
    [][Len(responses') > Len(responses) =>
          /\ (/\ webhook_secret # ""
              /\ NewResponse.req.signature
                    # Hmac(webhook_secret, NewResponse.req.body))
                 => /\ NewResponse.status = 401
                    /\ NewResponse.steps = <<"signature">>
                    /\ UNCHANGED <<stored_events, processed_ids>>
          /\ webhook_secret = ""
                 => /\ NewResponse.status # 401
                    /\ Len(NewResponse.steps) >= 2
                    /\ NewResponse.steps[2] = "json"]_vars

\* with a secret configured, an unsigned request and a request signed with
\* another key, both otherwise acceptable, were answered 401
C4_Witness ==
    /\ webhook_secret = "k1"
    /\ \E i, j \in 1..Len(responses) :
          /\ responses[i].req.signature = <<>>
          /\ responses[i].req.body.kind = "object"
          /\ responses[i].status = 401
          /\ responses[j].req.signature = Hmac("k2", responses[j].req.body)
          /\ responses[j].req.body.kind = "object"
          /\ responses[j].status = 401
    /\ stored_events = <<>>

\* the ids of the events the processor holds or has handled
ReachedProcessor ==
    {event_queue[k].event_id : k \in 1..Len(event_queue)}
        \cup {enqueue_tasks[k].event_id : k \in 1..Len(enqueue_tasks)}
        \cup {failed_events[k].event_id : k \in 1..Len(failed_events)}
        \cup {id \in EventIds : processed_events[id] # NoEvent}
        \cup {cur.event_id}

\* C9: every event answered 'received' has been placed on the processor's
\* queue (it is queued, in flight, applied or dead-lettered), and nothing is
\* on the queue that the receiver did not accept.
C9_ReceivedReachesQueue ==
    /\ \A i \in 1..Len(responses) :
          responses[i].outcome = "received" =>
              responses[i].event_id \in ReachedProcessor
    /\ \A k \in 1..Len(event_queue) :
          \E i \in 1..Len(responses) :
              /\ responses[i].outcome = "received"
              /\ responses[i].event_id = event_queue[k].event_id

\* C11: a trade becomes completed only by applying a final_confirmation event
\* whose count meets the threshold; an event of any other type never
\* completes a trade, and at or above the threshold it leaves a pending or
\* confirmed trade confirmed; no completed trade has confirmations below the
\* threshold.
C11_CompletionNeedsFinality ==
    /\ [](\A t \in TradeIds :
             (trades[t] # NoTrade /\ trades[t].status = COMPLETED) =>
                 trades[t].confirmations >= confirmation_threshold)
    /\ [][\A t \in TradeIds :
             Applied(t) =>
                 /\ (trades'[t].status = COMPLETED /\ Before(t).status # COMPLETED) =>
                        /\ LastApplied(t).event_type = "final_confirmation"
                        /\ LastApplied(t).confirmation_count >= confirmation_threshold
                 /\ (/\ LastApplied(t).event_type # "final_confirmation"
                     /\ LastApplied(t).confirmation_count >= confirmation_threshold
                     /\ Before(t).status \in {PENDING, CONFIRMED}) =>
                        (trades'[t].status = CONFIRMED /\ ~trades'[t].completed_at)]_vars

\* an ordinary event whose count exceeds the threshold was applied twice and
\* the trade is confirmed, not completed
C11_Witness ==
    \E t \in TradeIds :
        /\ trades[t] # NoTrade
        /\ Len(trades[t].events) = 2
        /\ \A k \in 1..2 :
              /\ trades[t].events[k].confirmation_count > confirmation_threshold
              /\ trades[t].events[k].event_type = "confirmation"
        /\ trades[t].status = CONFIRMED
        /\ ~trades[t].completed_at

\* C12: a final_confirmation event applied to a trade whose stored
\* confirmations already meet the threshold completes the trade and records
\* completed_at, whatever the event's own confirmation_count.
C12_FinalityCompletesConfirmedTrade ==
    [][\A t \in TradeIds :
          (/\ Applied(t)
           /\ LastApplied(t).event_type = "final_confirmation"
           /\ Before(t).confirmations >= confirmation_threshold) =>
              (trades'[t].status = COMPLETED /\ trades'[t].completed_at)]_vars

\* C13: a trade whose stored status is failed keeps that status under every
\* event applied afterwards.
C13_FailedIsTerminal ==
    [][\A t \in TradeIds :
          (trades[t] # NoTrade /\ trades[t].status = FAILED) =>
              trades'[t].status = FAILED]_vars

\* the kinds of failure of one attempt, by the class raised in the try block
TimedOut(r) == IsInstance(r, "asyncio.TimeoutError")
TransportFailed(r) == IsInstance(r, "aiohttp.ClientError")
RpcErrored(r) == IsInstance(r, "RPCError")
FailedAttempt(r) == TimedOut(r) \/ TransportFailed(r) \/ RpcErrored(r)

\* every attempt of the latest call so far failed in one of these ways
AllFailed == \A i \in 1..Len(rq_log) : FailedAttempt(rq_log[i].raised)

LastRequest == rq_log[Len(rq_log)]

C15_BackoffWaits ==
    /\ \A i \in 1..Len(sleeps) :
          sleeps[i] = (IF i = 1 THEN 1 ELSE sleeps[i - 1] * backoff_factor)
    /\ (backoff_factor = 2 /\ Len(sleeps) >= 2) => SubSeq(sleeps, 1, 2) = <<1, 2>>
    /\ (backoff_factor = 3 /\ Len(sleeps) >= 2) => SubSeq(sleeps, 1, 2) = <<1, 3>>
    /\ (rq_pc = "raised" /\ Len(rq_log) >= 1 /\ AllFailed) =>
          Len(sleeps) = rpc_max_retries - 1
    /\ (rq_pc \in {"returned", "raised"} /\ Len(rq_log) >= 1) =>
          Len(sleeps) = Len(rq_log) - 1
    /\ rq_pc \in {"request", "sleep"} => Len(sleeps) = Len(rq_log)

\* factor 3, max_retries 3: three failed attempts with waits 1 and 3
C15_Witness ==
    /\ rq_pc = "raised"
    /\ backoff_factor = 3
    /\ rpc_max_retries = 3
    /\ Len(rq_log) = 3
    /\ AllFailed
    /\ sleeps = <<1, 3>>

C17_MissingEndpointFailsAtOnce ==
    /\ []((rq_pc # "idle" /\ rq_url = "") =>
             /\ rq_pc = "raised"
             /\ rq_result.type = "RPCConnectionError"
             /\ rq_log = <<>>
             /\ sleeps = <<>>)
    /\ [][(calls' = calls + 1 /\ rq_url' = "") =>
             (rq_pc' = "raised" /\ rq_attempt' = 0)]_vars

\* a client with max_retries 3 and two endpoints configured was asked about
\* a third network, after a call to a configured one
C17_Witness ==
    /\ rq_pc = "raised"
    /\ rq_url = ""
    /\ calls = 2
    /\ rpc_max_retries = 3
    /\ \E n \in NetworkTypes : rpc_urls[n] # ""
    /\ rq_log = <<>>

\* C18: the fault raised for a missing endpoint differs in type from the
\* fault raised when a configured endpoint stayed unreachable through all
\* retries.
C18_MissingEndpointDistinctType ==
    \A f, g \in faults :
        (f.cause = "no_endpoint" /\ TransportFailed(g.cause)) => f.type # g.type

\* the one request of the latest probe
ProbeExchange == hc_log[1].exchange

\* C19: health_check returns True or False and raises nothing; it returns
\* False for a network without endpoint, a timeout, a transport error, a
\* status other than 200, a JSON-RPC error and an undecodable body; it
\* returns True only after exactly one request answered in time with status
\* 200 and a body that reports no error.
C19_HealthCheckNeverRaises ==
    probes > 0 =>
        /\ hc_result \in {"True", "False"}
        /\ GetRpcUrl(rpc_urls, hc_network) = "" =>
              (hc_result = "False" /\ hc_log = <<>>)
        /\ GetRpcUrl(rpc_urls, hc_network) # "" =>
              /\ Len(hc_log) = 1
              /\ ProbeExchange.kind \in {"no_response", "client_error"} =>
                    hc_result = "False"
              /\ ProbeExchange.kind = "response" =>
                    /\ ProbeExchange.status # 200 => hc_result = "False"
                    /\ ProbeExchange.body \in {"error_object", "error_string"} =>
                          hc_result = "False"
                    /\ ProbeExchange.body \in {"undecodable", "wrong_content_type"} =>
                          hc_result = "False"
        /\ hc_result = "True" =>
              /\ Len(hc_log) = 1
              /\ ProbeExchange.kind = "response"
              /\ ProbeExchange.status = 200
              /\ ProbeExchange.body = "result"

\* a probe of a configured endpoint got a status-200 body that is no JSON
\* and returned False
C19_Witness ==
    /\ probes = 2
    /\ Len(hc_log) = 1
    /\ ProbeExchange.kind = "response"
    /\ ProbeExchange.status = 200
    /\ ProbeExchange.body = "undecodable"
    /\ ProbeExchange.latency < HealthTimeoutMs
    /\ hc_result = "False"

\* C20: the request of a probe carries a timeout of 2 seconds whatever the
\* client's timeout; a probe without a response within 2 seconds returns
\* False, also when the client's timeout is larger, and a healthy response
\* within 2 seconds gives True, also when the client's timeout is smaller;
\* a probe issues at most one request and no backoff sleep.
C20_ProbeTimeoutFixed ==
    /\ [](probes > 0 =>
             /\ Len(hc_log) <= 1
             /\ \A i \in 1..Len(hc_log) :
                   /\ hc_log[i].timeout = 2000
                   /\ (\/ hc_log[i].exchange.kind = "no_response"
                       \/ /\ hc_log[i].exchange.kind = "response"
                          /\ hc_log[i].exchange.latency > 2000)
                         => hc_result = "False"
                   /\ (/\ hc_log[i].exchange.kind = "response"
                       /\ hc_log[i].exchange.latency < 2000
                       /\ hc_log[i].exchange.status = 200
                       /\ hc_log[i].exchange.body = "result")
                         => hc_result = "True")
    /\ [][probes' # probes => (sleeps' = sleeps /\ rq_log' = rq_log)]_vars

\* client timeout 10 s: a healthy response after 3 s gave False
C20_Witness ==
    /\ timeout = 10000
    /\ Len(hc_log) = 1
    /\ ProbeExchange.kind = "response"
    /\ ProbeExchange.latency = 3000
    /\ ProbeExchange.status = 200
    /\ ProbeExchange.body = "result"
    /\ hc_result = "False"

StoredIds == {stored_events[k].event_id : k \in 1..Len(stored_events)}
LedgerIds == {processed_ids[k] : k \in 1..Len(processed_ids)}

\* C21: an event is answered 'received' only if its normalized event is in
\* the persisted events list and its id in the ledger, and after every
\* request the ids of the persisted events are the ids of the ledger.
C21_StoreAndMarkTogether ==
    /\ \A i \in 1..Len(responses) :
          responses[i].outcome = "received" =>
              /\ responses[i].event_id \in StoredIds
              /\ responses[i].event_id \in LedgerIds
    /\ StoredIds = LedgerIds

\* C22: once stop() has been called after start() returned, the consumer
\* loop eventually exits, and from its exit on it stays exited, processing
\* stays False and nothing is taken from the queue.
C22_StopEndsLoop ==
    /\ stop_requested ~> (pc = "done")
    /\ [][(stop_requested /\ pc = "done") =>
             /\ pc' = "done"
             /\ ~processing'
             /\ Len(event_queue') >= Len(event_queue)]_vars

\* C23: after stop has been requested no further attempt of the event held
\* by the retry wrapper is started.
C23_NoRetryAfterStop ==
    [][(stop_requested /\ ~processing /\ pc = "backoff") =>
          (pc' = "backoff" /\ attempt' = attempt /\ outcome' = outcome)]_vars

\* C24: the queue grows only at its end and shrinks only at its head; an
\* event is taken from it only when the loop holds no event, and the event
\* taken is the one the loop then works on; an applied event is appended
\* at the end of its trade's history, whatever its timestamp and count.
C24_DequeueOrder ==
    [][/\ Len(event_queue') > Len(event_queue) =>
             /\ Len(event_queue') = Len(event_queue) + 1
             /\ SubSeq(event_queue', 1, Len(event_queue)) = event_queue
       /\ Len(event_queue') < Len(event_queue) =>
             /\ event_queue' = Tail(event_queue)
             /\ pc = "poll" /\ cur = NoEvent /\ attempt = 0
             /\ \/ cur' = Head(event_queue)
                \/ /\ cur' = NoEvent
                   /\ processed_events'[Head(event_queue).event_id]
                         = Head(event_queue)
                   /\ Applied(Head(event_queue).trade_id)
       /\ pc = "backoff" => Len(event_queue') >= Len(event_queue)
       /\ \A t \in TradeIds :
             Applied(t) =>
                 /\ TheEvent.trade_id = t
                 /\ trades'[t].events =
                        Append(Before(t).events,
                               [event_id |-> TheEvent.event_id,
                                tx_hash |-> TheEvent.tx_hash,
                                confirmation_count |-> TheEvent.confirmation_count,
                                timestamp |-> TheEvent.timestamp,
                                event_type |-> TheEvent.event_type])]_vars

\* the event dequeued second has the smaller count and the earlier
\* timestamp and stands second in the history
C24_Witness ==
    /\ trades["t1"] # NoTrade
    /\ Len(trades["t1"].events) = 2
    /\ trades["t1"].events[1].confirmation_count = 3
    /\ trades["t1"].events[1].timestamp = "ts2"
    /\ trades["t1"].events[2].confirmation_count = 2
    /\ trades["t1"].events[2].timestamp = "ts1"
    /\ enqueued = 2

\* a step in which an attempt of the retry wrapper returned normally
SuccessStep ==
    /\ outcome' = "ok"
    /\ \/ pc = "poll" /\ Len(event_queue') < Len(event_queue)
       \/ pc = "backoff" /\ pc' # "backoff"

ProcessedCount == Cardinality({id \in EventIds : processed_events[id] # NoEvent})

\* C25: a failed attempt leaves every history and the processed set as they
\* were; a successful application appends exactly one entry, the applied
\* event's, at the end of its trade's history and changes no other trade,
\* also when that event_id is in the history already, and the processed
\* count then rises by one only if the id was not yet processed; histories
\* change in no other step; every enqueue_event call lengthens the queue by
\* one.
C25_HistoryCountsApplications ==
    [][/\ FailedAttemptStep =>
             (trades' = trades /\ processed_events' = processed_events)
       /\ SuccessStep =>
             LET t == TheEvent.trade_id
             IN  /\ Len(trades'[t].events) = Len(Before(t).events) + 1
                 /\ SubSeq(trades'[t].events, 1, Len(Before(t).events))
                       = Before(t).events
                 /\ LastApplied(t).event_id = TheEvent.event_id
                 /\ \A u \in TradeIds \ {t} : trades'[u] = trades[u]
                 /\ ProcessedCount' =
                       ProcessedCount +
                       (IF processed_events[TheEvent.event_id] = NoEvent
                        THEN 1 ELSE 0)
       /\ trades' # trades => SuccessStep
       /\ enqueued' = enqueued + 1 =>
             Len(event_queue') = Len(event_queue) + 1]_vars

\* the same event was enqueued twice and applied twice: two entries with
\* one event_id in the history, one processed event
C25_Witness ==
    /\ enqueued = 2
    /\ \E t \in TradeIds :
          /\ trades[t] # NoTrade
          /\ Len(trades[t].events) = 2
          /\ trades[t].events[1] = trades[t].events[2]
    /\ ProcessedCount = 1

HasStep(r, name) == \E k \in 1..Len(r.steps) : r.steps[k] = name

\* C26: the response of a request is decided by the first check that fails,
\* in the order signature, JSON, event_id, ledger, network parser, and no
\* later check is run: a bad signature gives 401 whatever the body; a
\* missing event_id gives 400 without consulting the ledger; an id already
\* in the ledger gives 200 'duplicate' without running the parser, also for
\* an unknown network.
C26_CheckOrder ==
    [][Len(responses') > Len(responses) =>
          LET r == NewResponse
              req == r.req
              sigBad == /\ webhook_secret # ""
                        /\ req.signature # Hmac(webhook_secret, req.body)
          IN  /\ sigBad =>
                    (r.status = 401 /\ r.steps = <<"signature">>)
              /\ (~sigBad /\ req.body.kind = "malformed") =>
                    /\ r.status = 400 /\ r.outcome = "Invalid JSON"
                    /\ r.steps = <<"signature", "json">>
              /\ (~sigBad /\ req.body.kind = "object") =>
                    LET id == req.body.payload.event_id
                        known == Upper(req.body.payload.network) \in KnownNetworks
                    IN  /\ id = "" =>
                              /\ r.status = 400 /\ r.outcome = "Missing event_id"
                              /\ ~HasStep(r, "ledger") /\ ~HasStep(r, "parse")
                        /\ (id # "" /\ id \in LedgerIds) =>
                              /\ r.status = 200 /\ r.outcome = "duplicate"
                              /\ HasStep(r, "ledger") /\ ~HasStep(r, "parse")
                        /\ (id # "" /\ id \notin LedgerIds /\ ~known) =>
                              /\ r.status = 400
                              /\ r.outcome = "Failed to parse event"
                        /\ (id # "" /\ id \notin LedgerIds /\ known) =>
                              (r.status = 200 /\ r.outcome = "received")]_vars

\* with a secret configured: an unsigned malformed body was answered 401,
\* and a delivery of an id already seen, naming an unknown network, was
\* answered 'duplicate'
C26_Witness ==
    /\ webhook_secret = "k1"
    /\ \E i, j \in 1..Len(responses) :
          /\ responses[i].req.body.kind = "malformed"
          /\ responses[i].req.signature = <<>>
          /\ responses[i].status = 401
          /\ responses[j].req.body.kind = "object"
          /\ responses[j].req.body.payload.network = "DOGE"
          /\ responses[j].outcome = "duplicate"

\* the ids of the events answered 'received'
ReceivedIds ==
    {responses[i].event_id :
        i \in {k \in 1..Len(responses) : responses[k].outcome = "received"}}

\* C27: a request whose outcome is not 'received' leaves the persisted
\* events list and the ledger as they were, so the ledger holds exactly the
\* ids answered 'received' and an id rejected with 400 is accepted when a
\* valid delivery of it follows.
C27_RejectionsWriteNothing ==
    /\ [](LedgerIds = ReceivedIds /\ StoredIds = ReceivedIds)
    /\ [][(Len(responses') > Len(responses) /\ NewResponse.outcome # "received")
             => UNCHANGED <<stored_events, processed_ids>>]_vars

\* e1 was rejected with 400 for its unknown network and then accepted
C27_Witness ==
    /\ Len(responses) >= 2
    /\ responses[1].status = 400
    /\ responses[1].outcome = "Failed to parse event"
    /\ responses[1].req.body.payload.event_id = "e1"
    /\ responses[2].outcome = "received"
    /\ responses[2].event_id = "e1"
    /\ LedgerIds = {"e1"}

\* C28: every typed query method returns its zero value, and raises
\* nothing, for a successful response whose result is absent, is null or
\* lacks the inner field the method reads.
C28_MissingResultGivesZero ==
    (/\ queries > 0
     /\ \/ q_shape \in {"absent", "null"}
        \/ /\ q_method \in NestedMethods
           /\ q_shape \in {"empty_object", "object_without_inner"})
        => q_result = ZeroValue(q_method)

\* C29: health_check_all returns a map whose keys are exactly the networks
\* with a configured endpoint (none when nothing is configured), and the
\* value of each is what health_check gives for that network alone.
C29_SweepCoversConfigured ==
    sweeps > 0 =>
        /\ DOMAIN hca_result = {n \in NetworkTypes : rpc_urls[n] # ""}
        /\ \A n \in DOMAIN hca_result :
              /\ hca_result[n] \in {"True", "False"}
              /\ hca_result[n] =
                    HealthCheckValue(rpc_urls, timeout, n, hca_exchanges[n])

C29_Witness ==
    /\ sweeps > 0
    /\ \E n, k \in DOMAIN hca_result :
          /\ hca_result[n] = "True"
          /\ hca_result[k] = "False"
          /\ hca_exchanges[k].kind = "client_error"
    /\ \E n \in NetworkTypes : n \notin DOMAIN hca_result

\* C30: when all concurrently started _process_event coroutines have
\* completed, no update is lost: each trade's history holds every started
\* event of the trade once per start and nothing else, its confirmations is
\* the largest count among them, and its status is the one all of them
\* together give.
StartedFor(t) == {e \in BagToSet(started) : e.trade_id = t}

HistoryCopies(t, summary) ==
    Cardinality({k \in 1..Len(trades[t].events) : trades[t].events[k] = summary})

StatusOfAll(evs, threshold) ==
    IF \E e \in evs : /\ e.confirmation_count >= threshold
                       /\ e.event_type = "final_confirmation"
    THEN COMPLETED
    ELSE IF \E e \in evs : e.confirmation_count >= threshold
    THEN CONFIRMED
    ELSE PENDING

C30_NoLostUpdate ==
    tasks = EmptyBag =>
        \A t \in TradeIds :
            IF StartedFor(t) = {}
            THEN trades[t] = NoTrade
            ELSE /\ trades[t] # NoTrade
                 /\ \A e \in StartedFor(t) :
                       HistoryCopies(t, EventSummary(e)) = CopiesIn(e, started)
                 /\ \A k \in 1..Len(trades[t].events) :
                       \E e \in StartedFor(t) :
                           trades[t].events[k] = EventSummary(e)
                 /\ \A e \in StartedFor(t) :
                       trades[t].confirmations >= e.confirmation_count
                 /\ \E e \in StartedFor(t) :
                       trades[t].confirmations = e.confirmation_count
                 /\ trades[t].status =
                       StatusOfAll(StartedFor(t), confirmation_threshold)

C30_Witness ==
    /\ tasks = EmptyBag
    /\ \E e1, e2 \in StartedFor("t1") :
          /\ e1.confirmation_count > e2.confirmation_count
          /\ Len(trades["t1"].events) = 2
          /\ trades["t1"].events[1] = EventSummary(e1)
          /\ trades["t1"].events[2] = EventSummary(e2)
          /\ trades["t1"].confirmations = e1.confirmation_count

\* C31: in the state in which start() returns, before the caller yields to
\* the event loop, the processing flag is True.
C31_ProcessingAfterStart ==
    [][(pc = "init" /\ pc' = "created") => processing']_vars

\* C32: when retry_dlq_event returns True the replayed event is on the
\* queue: the queue is one longer in the state in which the call returns.
C32_ReplayOnQueueAtReturn ==
    [][(replays' = replays + 1 /\ replay_result' = "true") =>
          /\ Len(event_queue') = Len(event_queue) + 1
          /\ event_queue'[Len(event_queue')].retry_count > 0]_vars

\* C33: a call of _make_request that ends on a response whose body is not
\* JSON has raised RPCConnectionError, not the decoder's own exception.
C33_UndecodableIsConnectionError ==
    \A f \in faults :
        f.cause = "json.JSONDecodeError" => f.type = "RPCConnectionError"

\* C34: a processor built with max_retries = n makes at most n attempts on
\* an event: while the retry wrapper sleeps before a further attempt, fewer
\* than n attempts have been made.
C34_MaxRetriesBoundsAttempts ==
    pc = "backoff" => attempt < max_retries

\* C35: a call of retry_dlq_event that returns False has found no entry and
\* has changed nothing: the dead-letter store, the queue, the pending
\* enqueues, the trade store and the processed set are as before; a call
\* that returns True has removed exactly one entry.
C35_NotFoundChangesNothing ==
    [][replay_result' # replay_result =>
          \/ /\ replay_result' = "false"
             /\ UNCHANGED <<failed_events, event_queue, enqueue_tasks, trades,
                            processed_events>>
          \/ /\ replay_result' = "true"
             /\ Len(failed_events') = Len(failed_events) - 1]_vars

C35_Witness ==
    /\ replay_result = "false"
    /\ failed_events # <<>>
    /\ replays = 0

\* C36: the trade store changes only in a step in which an attempt on an
\* event returns normally; the query operations, enqueue_event,
\* retry_dlq_event, the write of a dead-letter entry and handle_webhook
\* leave every trade record as it was.
C36_OnlyApplyingChangesTrades ==
    [][/\ trades' # trades => SuccessStep
       /\ (\/ got' # got
           \/ Len(event_queue') > Len(event_queue)
           \/ replay_result' # replay_result
           \/ Len(enqueue_tasks') > Len(enqueue_tasks)
           \/ Len(failed_events') > Len(failed_events)
           \/ responses' # responses) => trades' = trades]_vars

C36_Witness ==
    /\ trades["t1"] # NoTrade
    /\ got.op = "get_trade_status"
    /\ got.value = trades["t1"]
    /\ failed_events # <<>>
    /\ replay_result = "true"
    /\ \E i \in 1..Len(responses) : responses[i].outcome = "received"

\* C37: an attempt that raises leaves the trade store and the processed set
\* as they were, whether it is followed by a further attempt or by the
\* dead-letter entry; an event that succeeds after failed attempts adds one
\* entry, its own, to its trade's history.
RaisingAttemptStep ==
    /\ outcome' \in Errors
    /\ \/ pc = "poll" /\ Len(event_queue') < Len(event_queue)
       \/ pc = "backoff" /\ attempt' # attempt

C37_RaisingAttemptWritesNothing ==
    [][/\ RaisingAttemptStep => UNCHANGED <<trades, processed_events>>
       /\ Len(failed_events') > Len(failed_events) =>
             UNCHANGED <<trades, processed_events>>
       /\ (pc = "backoff" /\ SuccessStep) =>
             /\ trades'[cur.trade_id] # NoTrade
             /\ SumLen(trades', TradeIds) = SumLen(trades, TradeIds) + 1
             /\ LET h == trades'[cur.trade_id].events
                IN  h[Len(h)] = EventSummary(cur)
             /\ processed_events'[cur.event_id] = cur]_vars

C37_Witness ==
    /\ failed_events # <<>>
    /\ enqueued = 2
    /\ TotalApplied = 1
    /\ event_queue = <<>>
    /\ pc = "poll"

\* C38: every event id in the processed set has an entry with that id in
\* the stored history of the event's trade, also when a write of the trade
\* store has failed.
C38_ProcessedImpliesStored ==
    \A id \in EventIds :
        processed_events[id] # NoEvent =>
            LET t == trades[processed_events[id].trade_id]
            IN  /\ t # NoTrade
                /\ \E k \in 1..Len(t.events) : t.events[k].event_id = id

\* C39: a replayed event is never dropped. The step that removes a
\* dead-letter entry puts the entry's event, its retry_count raised by one,
\* among the pending enqueues; from then on every step keeps it in the
\* pending enqueues, on the queue or in the hands of the retry wrapper,
\* unless the step is the one in which it is applied or the one in which it
\* is written back as the newest dead-letter entry, retry_count kept.
ReplayedEvents ==
    {[e EXCEPT !.retry_count = n] : e \in QueueInputs, n \in 1..MaxReplays}

CountIn(seq, x) == Cardinality({k \in 1..Len(seq) : seq[k] = x})

HeldCount(tasksNow, queueNow, pcNow, curNow, x) ==
    CountIn(tasksNow, x) + CountIn(queueNow, x)
        + (IF pcNow = "backoff" /\ curNow = x THEN 1 ELSE 0)

C39_ReplayedNeverDropped ==
    [][/\ Len(failed_events') < Len(failed_events) =>
             \E i \in 1..Len(failed_events) :
                 /\ failed_events' = Pop(failed_events, i)
                 /\ enqueue_tasks' =
                       Append(enqueue_tasks,
                              [failed_events[i].original_event EXCEPT
                                   !.retry_count = @ + 1])
       /\ \A x \in ReplayedEvents :
             LET before == HeldCount(enqueue_tasks, event_queue, pc, cur, x)
                 after == HeldCount(enqueue_tasks', event_queue', pc', cur', x)
             IN  \/ after >= before
                 \/ /\ after = before - 1
                    /\ \/ /\ outcome' = "ok"
                          /\ processed_events'[x.event_id] = x
                       \/ /\ Len(failed_events') = Len(failed_events) + 1
                          /\ failed_events'[Len(failed_events')].original_event = x]_vars

C39_Witness ==
    /\ replays > 0
    /\ \E i \in 1..Len(failed_events) :
          failed_events[i].original_event.retry_count = 1

\* C40: for a probe answered in time with status 200 and a JSON body,
\* health_check returns False exactly when _make_request would raise
\* RPCError for the same response; a body with "error": null is a success
\* for both.
C40_ErrorFieldAgreement ==
    (/\ probes > 0
     /\ Len(hc_log) = 1
     /\ ProbeExchange.kind = "response"
     /\ ProbeExchange.status = 200
     /\ ProbeExchange.latency <= HealthTimeoutMs
     /\ ProbeExchange.body \in {"result", "error_null", "error_object",
                                "error_string"})
        => /\ (hc_result = "False") <=>
                 (TryBlock(ProbeExchange, HealthTimeoutMs) = "RPCError")
           /\ ProbeExchange.body = "error_null" => hc_result = "True"

====
